---- MODULE Spec2Model ----
(***************************************************************************)
(* Soul Builder: the per-session question/answer state machine, the        *)
(* session store with its timer-driven expiry sweep, and the SOUL.md       *)
(* renderer (soul-builder.ts, types.ts).                                   *)
(*                                                                         *)
(* Strings that the code inspects (answers) are sequences of one-character *)
(* strings, so that trim() and toLowerCase() are computed.  Literal text   *)
(* of messages and of the document is kept as whole string constants.      *)
(* Every exported function runs to completion on the single JavaScript     *)
(* thread, so each call is one action.                                     *)
(***************************************************************************)
EXTENDS Integers, Sequences, FiniteSets, TLC

VARIABLES
    sessions,   \* the module-level Map<string, SoulState>
    now,        \* Date.now(), in milliseconds since the process started
    nextSweep,  \* time at which the setInterval callback is next due
    call,       \* the last call made: operation, session id, raw answer
    result,     \* the ToolResult that call returned
    evicted     \* history: for each identifier the sweep has deleted, the
                \* step its session had when it was last deleted

vars == <<sessions, now, nextSweep, call, result, evicted>>

-----------------------------------------------------------------------------
(* Program constants *)

SESSION_EXPIRY_MS == 60 * 60 * 1000

SWEEP_INTERVAL_MS == 10 * 60 * 1000

SOUL_QUESTIONS ==
    << [step |-> 1, field |-> "name",
        question |-> "Wie soll dein Agent heissen?",
        optional |-> FALSE],
       [step |-> 2, field |-> "personality",
        question |-> "Beschreibe die Persoenlichkeit in 3 Adjektiven (z.B. warm, direkt, neugierig)",
        optional |-> FALSE],
       [step |-> 3, field |-> "coreValues",
        question |-> "Was sind 2-3 Kernwerte deines Agenten?",
        optional |-> FALSE],
       [step |-> 4, field |-> "tone",
        question |-> "Kommunikationsstil: formell / locker-professionell / casual / technisch-praezise",
        optional |-> FALSE],
       [step |-> 5, field |-> "backstory",
        question |-> "Gib deinem Agenten eine Herkunft -- 1-2 Saetze.",
        optional |-> FALSE],
       [step |-> 6, field |-> "signature",
        question |-> "Ein typischer Erkennungs-Satz deines Agenten? (oder \"skip\" zum Ueberspringen)",
        optional |-> TRUE] >>

TOTAL_STEPS == Len(SOUL_QUESTIONS)

-----------------------------------------------------------------------------
(* Bounds and input sets of the model *)

\* The clock is observed every TickMs; MaxTicks bounds how far it runs.
MaxTicks == 8

TickMs == SWEEP_INTERVAL_MS

\* Identifiers used by the single-session specification (Spec).
SessionIds == {"s1"}

\* Identifiers used by the two-session specification (SpecPair).
PairIds == {"s1", "s2"}

\* Raw answers a caller may send: empty, whitespace only, the skip word
\* in mixed case with surrounding whitespace, and a text with an inner
\* blank and a trailing one.
RawAnswers ==
    { <<>>,
      <<" ", "\t">>,
      <<" ", "S", "k", "I", "p", "\n">>,
      <<"A", " ", "i", " ">> }

\* Raw answers used by the two-session specification: empty, the skip word
\* exactly as written in the code, and the text.
PairAnswers ==
    { <<>>,
      <<"s", "k", "i", "p">>,
      <<"A", " ", "i", " ">> }

-----------------------------------------------------------------------------
(* String.prototype.trim and String.prototype.toLowerCase *)

WhiteSpace == {" ", "\t", "\n", "\r"}

RECURSIVE trimStart(_)
trimStart(s) ==
    IF s # <<>> /\ Head(s) \in WhiteSpace THEN trimStart(Tail(s)) ELSE s

RECURSIVE trimEnd(_)
trimEnd(s) ==
    IF s # <<>> /\ s[Len(s)] \in WhiteSpace
    THEN trimEnd(SubSeq(s, 1, Len(s) - 1))
    ELSE s

\* Variant: the answer is used as sent, without trimming.
trimNone(s) == s

trim(s) == trimEnd(trimStart(s))

UpperToLower ==
    [c \in {"A", "I", "K", "P", "S"} |->
        CASE c = "A" -> "a"
          [] c = "I" -> "i"
          [] c = "K" -> "k"
          [] c = "P" -> "p"
          [] c = "S" -> "s"]

\* Variant: the comparison with the skip word is case-sensitive.
toLowerCaseNone(s) == s

toLowerCase(s) ==
    [i \in 1..Len(s) |->
        IF s[i] \in DOMAIN UpperToLower THEN UpperToLower[s[i]] ELSE s[i]]

SkipWord == <<"s", "k", "i", "p">>

-----------------------------------------------------------------------------
(* Session state helpers *)

\* A field of a Partial<SoulAnswers> interpolated into a template string.
Interpolate(answers, f) ==
    IF f \in DOMAIN answers THEN answers[f] ELSE <<"undefined">>

\* Variant: the answers object is replaced by one holding the new field only.
SetAnswerReplace(state, f, v) ==
    [state EXCEPT !.answers = [g \in {f} |-> v]]

\* state.answers[field] = value
SetAnswer(state, f, v) ==
    [state EXCEPT !.answers =
        [g \in DOMAIN state.answers \cup {f} |->
            IF g = f THEN v ELSE state.answers[g]]]

\* Variant: the comparison is off by one.
IsCompleteEarly(state) == state.step >= TOTAL_STEPS

\* state.step > TOTAL_STEPS
IsComplete(state) == state.step > TOTAL_STEPS

\* Variant: the subtraction is written the other way round.
IsExpiredReversed(state, t) == state.createdAt - t > SESSION_EXPIRY_MS

\* Variant: a session is taken as expired at exactly the window.
IsExpiredEager(state, t) == t - state.createdAt >= SESSION_EXPIRY_MS

\* now - state.createdAt.getTime() > SESSION_EXPIRY_MS
IsExpired(state, t) == t - state.createdAt > SESSION_EXPIRY_MS

\* Variant: every entry of the map refers to the one state object.
MapSetShared(ss, sid, state) ==
    [k \in DOMAIN ss \cup {sid} |-> state]

\* Map.set(key, value) on the session map
MapSet(ss, sid, state) ==
    [k \in DOMAIN ss \cup {sid} |-> IF k = sid THEN state ELSE ss[k]]

-----------------------------------------------------------------------------
(* Results.  Message texts are the source literals, transliterated to ASCII. *)

NoSessionResult ==
    [success |-> FALSE,
     message |-> [text |-> "Keine aktive Session gefunden. Bitte starte mit start_soul_builder."]]


\* Variant: the index of the current question is clamped to the last
\* question, so a question is reported on a complete session too.
ExistingResultClamped(existing) ==
    LET k == IF existing.step > TOTAL_STEPS THEN TOTAL_STEPS ELSE existing.step
    IN  [success |-> TRUE,
         message |-> [text |-> "Session bereits aktiv. Wir sind bei Frage ${existing.step}/${TOTAL_STEPS}.",
                      step |-> existing.step, total |-> TOTAL_STEPS],
         nextQuestion |-> SOUL_QUESTIONS[k].question,
         currentStep |-> existing.step,
         totalSteps |-> TOTAL_STEPS,
         isComplete |-> IsComplete(existing)]

\* startSoulBuilder, session already present (currentQuestion?.question is
\* undefined when step - 1 is past the end of SOUL_QUESTIONS)
ExistingResult(existing) ==
    LET message == [text |-> "Session bereits aktiv. Wir sind bei Frage ${existing.step}/${TOTAL_STEPS}.",
                    step |-> existing.step, total |-> TOTAL_STEPS]
    IN  IF existing.step \in DOMAIN SOUL_QUESTIONS
        THEN [success |-> TRUE,
              message |-> message,
              nextQuestion |-> SOUL_QUESTIONS[existing.step].question,
              currentStep |-> existing.step,
              totalSteps |-> TOTAL_STEPS,
              isComplete |-> IsComplete(existing)]
        ELSE [success |-> TRUE,
              message |-> message,
              currentStep |-> existing.step,
              totalSteps |-> TOTAL_STEPS,
              isComplete |-> IsComplete(existing)]

\* startSoulBuilder, new session
WelcomeResult ==
    [success |-> TRUE,
     message |-> [text |-> "Willkommen beim Soul Builder! ... In ${TOTAL_STEPS} kurzen Fragen ... Lass uns starten!",
                  total |-> TOTAL_STEPS],
     nextQuestion |-> SOUL_QUESTIONS[1].question,
     currentStep |-> 1,
     totalSteps |-> TOTAL_STEPS,
     isComplete |-> FALSE]

\* Variant: an answer after completion is reported as a failure.
AlreadyCompleteResultError(state) ==
    [success |-> FALSE,
     message |-> [text |-> "Alle Fragen beantwortet! Nutze generate_soul um dein SOUL.md zu erstellen."],
     isComplete |-> TRUE,
     currentStep |-> state.step,
     totalSteps |-> TOTAL_STEPS]

\* answerQuestion on a session that is already complete
AlreadyCompleteResult(state) ==
    [success |-> TRUE,
     message |-> [text |-> "Alle Fragen beantwortet! Nutze generate_soul um dein SOUL.md zu erstellen."],
     isComplete |-> TRUE,
     currentStep |-> state.step,
     totalSteps |-> TOTAL_STEPS]

\* answerQuestion, empty answer to a required question
RequiredResult(state, currentQuestion) ==
    [success |-> FALSE,
     message |-> [text |-> "Diese Frage ist erforderlich. Bitte beantworte: ${currentQuestion.question}",
                  question |-> currentQuestion.question],
     currentStep |-> state.step,
     totalSteps |-> TOTAL_STEPS]

\* answerQuestion, the answer just stored was the last one
CompletedResult(state) ==
    [success |-> TRUE,
     message |-> [text |-> "Perfekt! Alle ${TOTAL_STEPS} Fragen beantwortet. Dein Agent \"${state.answers.name}\" ist bereit! Nutze jetzt generate_soul um dein SOUL.md zu erstellen.",
                  total |-> TOTAL_STEPS,
                  name |-> Interpolate(state.answers, "name")],
     isComplete |-> TRUE,
     currentStep |-> state.step,
     totalSteps |-> TOTAL_STEPS]

\* answerQuestion, more questions follow
NextQuestionResult(state) ==
    [success |-> TRUE,
     message |-> [text |-> "Antwort gespeichert! Weiter zu Frage ${state.step}/${TOTAL_STEPS}:",
                  step |-> state.step, total |-> TOTAL_STEPS],
     nextQuestion |-> SOUL_QUESTIONS[state.step].question,
     currentStep |-> state.step,
     totalSteps |-> TOTAL_STEPS,
     isComplete |-> FALSE]

\* Variant: the count leaves out the question being awaited.
RemainingOffByOne(state) == TOTAL_STEPS - state.step

\* const remaining = TOTAL_STEPS - state.step + 1
Remaining(state) == TOTAL_STEPS - state.step + 1

\* generateSoul before completion
GenerateNotCompleteResult(state) ==
    [success |-> FALSE,
     message |-> [text |-> "Noch ${remaining} Frage(n) offen. Bitte beantworte alle Fragen zuerst.",
                  remaining |-> Remaining(state)],
     currentStep |-> state.step,
     totalSteps |-> TOTAL_STEPS]

\* exportSoul before completion
ExportNotCompleteResult ==
    [success |-> FALSE,
     message |-> [text |-> "Soul noch nicht vollstaendig. Bitte beantworte alle Fragen und nutze generate_soul."]]

-----------------------------------------------------------------------------
(* The renderer.  The document is the sequence of its literal pieces and   *)
(* of the characters of the interpolated answers.                          *)

SignaturePlaceholder == <<"*Keine Signatur definiert*">>

\* Variant: the signature is rendered as stored, without the placeholder.
SignatureSectionPlain(answers) ==
    <<"## Signature\n">> \o Interpolate(answers, "signature")

\* answers.signature ? `## Signature\n${answers.signature}` : placeholder
SignatureSection(answers) ==
    IF "signature" \in DOMAIN answers /\ answers["signature"] # <<>>
    THEN <<"## Signature\n">> \o answers["signature"]
    ELSE <<"## Signature\n">> \o SignaturePlaceholder

generateSoulMd(answers) ==
       <<"# SOUL.md -- ">> \o Interpolate(answers, "name")
    \o <<"\n\n## Identity\n**Name:** ">> \o Interpolate(answers, "name")
    \o <<"\n**Personality:** ">> \o Interpolate(answers, "personality")
    \o <<"\n**Core Values:** ">> \o Interpolate(answers, "coreValues")
    \o <<"\n\n## Communication Style\n**Tone:** ">> \o Interpolate(answers, "tone")
    \o <<"\n\n## Backstory\n">> \o Interpolate(answers, "backstory")
    \o <<"\n\n">> \o SignatureSection(answers)
    \o <<"\n\n---\n*Generated by Soul Builder -- ag3nt.id*\n*Give your agent an identity.*\n">>

GeneratedResult(state) ==
    [success |-> TRUE,
     message |-> [text |-> "SOUL.md fuer \"${answers.name}\" erfolgreich generiert!",
                  name |-> Interpolate(state.answers, "name")],
     soulMd |-> generateSoulMd(state.answers),
     isComplete |-> TRUE]

ExportedResult(state) ==
    [success |-> TRUE,
     message |-> [text |-> "Hier ist dein SOUL.md zum Kopieren:"],
     soulMd |-> generateSoulMd(state.answers)]

-----------------------------------------------------------------------------
(* The exported functions, as functions of the session map.  Each yields   *)
(* the map after the call and the ToolResult returned.                     *)

EmptyAnswers == [f \in {} |-> <<>>]

\* { step: 1, answers: {}, createdAt: new Date() }
NewSession(t) == [step |-> 1, answers |-> EmptyAnswers, createdAt |-> t]

\* Variant: a start on an existing session refreshes its createdAt.
startSoulBuilderTouch(ss, sid, t) ==
    IF sid \in DOMAIN ss
    THEN [sessions |-> [ss EXCEPT ![sid].createdAt = t],
          result |-> ExistingResult(ss[sid])]
    ELSE [sessions |-> MapSet(ss, sid, NewSession(t)), result |-> WelcomeResult]

\* Variant: a start always installs a new session.
startSoulBuilderReset(ss, sid, t) ==
    [sessions |-> MapSet(ss, sid, NewSession(t)), result |-> WelcomeResult]

startSoulBuilder(ss, sid, t) ==
    IF sid \in DOMAIN ss
    THEN [sessions |-> ss, result |-> ExistingResult(ss[sid])]
    ELSE [sessions |-> MapSet(ss, sid, NewSession(t)), result |-> WelcomeResult]

\* Variant: the skip word is honoured on every question.
IsSkipAny(currentQuestion, trimmedAnswer) ==
    toLowerCase(trimmedAnswer) = SkipWord

\* currentQuestion.optional && trimmedAnswer.toLowerCase() === 'skip'
IsSkip(currentQuestion, trimmedAnswer) ==
    currentQuestion.optional /\ toLowerCase(trimmedAnswer) = SkipWord

\* Variant: the negation of optional is dropped.
IsMissingInverted(currentQuestion, trimmedAnswer) ==
    trimmedAnswer = <<>> /\ currentQuestion.optional

\* Variant: an empty answer is refused on every question.
IsMissingAny(currentQuestion, trimmedAnswer) ==
    trimmedAnswer = <<>>

\* !trimmedAnswer && !currentQuestion.optional
IsMissing(currentQuestion, trimmedAnswer) ==
    trimmedAnswer = <<>> /\ ~currentQuestion.optional

\* Variant: the step is advanced twice.
AdvanceTwice(state) == [state EXCEPT !.step = @ + 2]

\* state.step++
Advance(state) == [state EXCEPT !.step = @ + 1]

\* Variant: the answer is stored but the step is not advanced.
AcceptWithoutAdvance(ss, sid, stored) ==
    [sessions |-> MapSet(ss, sid, stored),
     result |-> NextQuestionResult(stored)]

\* the tail of answerQuestion once the answer has been stored
Accept(ss, sid, stored) ==
    LET state == Advance(stored)
    IN  [sessions |-> MapSet(ss, sid, state),
         result |-> IF IsComplete(state)
                    THEN CompletedResult(state)
                    ELSE NextQuestionResult(state)]

\* answerQuestion once the session has been found
AnswerOn(ss, sid, state, answer) ==
    IF IsComplete(state)
    THEN [sessions |-> ss, result |-> AlreadyCompleteResult(state)]
    ELSE LET currentQuestion == SOUL_QUESTIONS[state.step]
             trimmedAnswer == trim(answer)
         IN  IF IsSkip(currentQuestion, trimmedAnswer)
             THEN Accept(ss, sid, SetAnswer(state, currentQuestion.field, <<>>))
             ELSE IF IsMissing(currentQuestion, trimmedAnswer)
             THEN [sessions |-> ss, result |-> RequiredResult(state, currentQuestion)]
             ELSE Accept(ss, sid, SetAnswer(state, currentQuestion.field, trimmedAnswer))

\* Variant: an answer for an unknown identifier starts a session for it.
answerQuestionAutoCreate(ss, sid, answer) ==
    IF sid \notin DOMAIN ss
    THEN AnswerOn(ss, sid, NewSession(0), answer)
    ELSE AnswerOn(ss, sid, ss[sid], answer)

answerQuestion(ss, sid, answer) ==
    IF sid \notin DOMAIN ss
    THEN [sessions |-> ss, result |-> NoSessionResult]
    ELSE AnswerOn(ss, sid, ss[sid], answer)

generateSoul(ss, sid) ==
    IF sid \notin DOMAIN ss
    THEN [sessions |-> ss, result |-> NoSessionResult]
    ELSE IF ~IsComplete(ss[sid])
    THEN [sessions |-> ss, result |-> GenerateNotCompleteResult(ss[sid])]
    ELSE [sessions |-> ss, result |-> GeneratedResult(ss[sid])]

\* Variant: a successful export ends the session.
exportSoulConsume(ss, sid) ==
    IF sid \notin DOMAIN ss
    THEN [sessions |-> ss, result |-> NoSessionResult]
    ELSE IF ~IsComplete(ss[sid])
    THEN [sessions |-> ss, result |-> ExportNotCompleteResult]
    ELSE [sessions |-> [k \in DOMAIN ss \ {sid} |-> ss[k]],
          result |-> ExportedResult(ss[sid])]

exportSoul(ss, sid) ==
    IF sid \notin DOMAIN ss
    THEN [sessions |-> ss, result |-> NoSessionResult]
    ELSE IF ~IsComplete(ss[sid])
    THEN [sessions |-> ss, result |-> ExportNotCompleteResult]
    ELSE [sessions |-> ss, result |-> ExportedResult(ss[sid])]

\* the setInterval callback: delete every expired session
sweep(ss, t) ==
    [k \in {sid \in DOMAIN ss : ~IsExpired(ss[sid], t)} |-> ss[k]]

-----------------------------------------------------------------------------
(* Actions *)

NoCall == [op |-> "none"]

NoResult == [success |-> FALSE, message |-> [text |-> ""]]

Init ==
    /\ sessions = [k \in {} |-> NewSession(0)]
    /\ now = 0
    /\ nextSweep = SWEEP_INTERVAL_MS
    /\ call = NoCall
    /\ result = NoResult
    /\ evicted = [k \in {} |-> 1]

StartSoulBuilder(sid) ==
    LET r == startSoulBuilder(sessions, sid, now) IN
    /\ sessions' = r.sessions
    /\ result' = r.result
    /\ call' = [op |-> "start_soul_builder", sessionId |-> sid]
    /\ UNCHANGED <<now, nextSweep, evicted>>

AnswerQuestion(sid, answer) ==
    LET r == answerQuestion(sessions, sid, answer) IN
    /\ sessions' = r.sessions
    /\ result' = r.result
    /\ call' = [op |-> "answer_question", sessionId |-> sid, answer |-> answer]
    /\ UNCHANGED <<now, nextSweep, evicted>>

GenerateSoul(sid) ==
    LET r == generateSoul(sessions, sid) IN
    /\ sessions' = r.sessions
    /\ result' = r.result
    /\ call' = [op |-> "generate_soul", sessionId |-> sid]
    /\ UNCHANGED <<now, nextSweep, evicted>>

ExportSoul(sid) ==
    LET r == exportSoul(sessions, sid) IN
    /\ sessions' = r.sessions
    /\ result' = r.result
    /\ call' = [op |-> "export_soul", sessionId |-> sid]
    /\ UNCHANGED <<now, nextSweep, evicted>>

\* The interval timer fires: the callback runs once it is due.
Sweep ==
    /\ now >= nextSweep
    /\ sessions' = sweep(sessions, now)
    /\ evicted' = [k \in DOMAIN evicted \cup (DOMAIN sessions \ DOMAIN sessions') |->
                       IF k \in DOMAIN sessions \ DOMAIN sessions'
                       THEN sessions[k].step ELSE evicted[k]]
    /\ nextSweep' = nextSweep + SWEEP_INTERVAL_MS
    /\ UNCHANGED <<now, call, result>>

\* Time passes.  A due timer callback runs before the clock is observed
\* again; requests arriving at the same instant may still precede it.
Tick ==
    /\ now < nextSweep
    /\ now < MaxTicks * TickMs
    /\ now' = now + TickMs
    /\ UNCHANGED <<sessions, nextSweep, call, result, evicted>>

Next ==
    \/ \E sid \in SessionIds : StartSoulBuilder(sid)
    \/ \E sid \in SessionIds : \E answer \in RawAnswers : AnswerQuestion(sid, answer)
    \/ \E sid \in SessionIds : GenerateSoul(sid)
    \/ \E sid \in SessionIds : ExportSoul(sid)
    \/ Sweep
    \/ Tick

Spec == Init /\ [][Next]_vars

\* Two identifiers, clock at rest: the calls only.
NextPair ==
    \/ \E sid \in PairIds : StartSoulBuilder(sid)
    \/ \E sid \in PairIds : \E answer \in PairAnswers : AnswerQuestion(sid, answer)
    \/ \E sid \in PairIds : GenerateSoul(sid)
    \/ \E sid \in PairIds : ExportSoul(sid)

SpecPair == Init /\ [][NextPair]_vars

\* Two identifiers with the clock running up to the first sweep: sessions
\* are created at different times.
PairClockAnswers ==
    { <<>>,
      <<"A", " ", "i", " ">> }

NextPairClock ==
    \/ \E sid \in PairIds : StartSoulBuilder(sid)
    \/ \E sid \in PairIds : \E answer \in PairClockAnswers : AnswerQuestion(sid, answer)
    \/ \E sid \in PairIds : GenerateSoul(sid)
    \/ \E sid \in PairIds : ExportSoul(sid)
    \/ Tick

SpecPairClock == Init /\ [][NextPairClock]_vars

TypeOK ==
    /\ DOMAIN sessions \subseteq PairIds
    /\ \A sid \in DOMAIN sessions :
          /\ sessions[sid].step \in 1..(TOTAL_STEPS + 1)
          /\ sessions[sid].createdAt \in 0..now
    /\ now \in 0..(MaxTicks * TickMs + TickMs)

-----------------------------------------------------------------------------
(* Properties *)

\* The step is a call of operation op on identifier sid.
Called(op, sid) ==
    /\ now' = now
    /\ nextSweep' = nextSweep
    /\ call'.op = op
    /\ call'.sessionId = sid

\* The step is a run of the sweep callback.
Swept == nextSweep' # nextSweep

\* Raw answers that are empty after trimming.
BlankAnswers == { <<>>, <<" ", "\t">> }

\* Raw answers that are the skip word after trimming, in some letter case.
SkipAnswers == { <<"s", "k", "i", "p">>, <<" ", "S", "k", "I", "p", "\n">> }

\* C1: for every session, across begin, submitAnswer, generate and export
\* calls, currentStep starts at 1, never decreases, changes only by +1 and
\* never exceeds TOTAL_STEPS + 1.
C1_StepMonotone ==
    [][\A sid \in DOMAIN sessions' :
          /\ sessions'[sid].step \in 1..(TOTAL_STEPS + 1)
          /\ sid \notin DOMAIN sessions => sessions'[sid].step = 1
          /\ sid \in DOMAIN sessions =>
                sessions'[sid].step \in {sessions[sid].step, sessions[sid].step + 1}]_vars

\* A session has been taken through all questions by accepted answers.
C1_Witness ==
    \E sid \in DOMAIN sessions :
        /\ sessions[sid].step = TOTAL_STEPS + 1
        /\ call.op = "answer_question"
        /\ result.success
        /\ "name" \in DOMAIN result.message

\* C2: an answer that is empty after trimming, given while a required
\* question is awaited, fails with the required-answer message naming the
\* same question and the same step, and leaves the session map unchanged.
C2_EmptyRequiredRejected ==
    [][\A sid \in DOMAIN sessions :
          ( /\ Called("answer_question", sid)
            /\ call'.answer \in BlankAnswers
            /\ sessions[sid].step <= TOTAL_STEPS
            /\ ~SOUL_QUESTIONS[sessions[sid].step].optional )
          => /\ sessions' = sessions
             /\ result'.success = FALSE
             /\ "question" \in DOMAIN result'.message
             /\ result'.message.question = SOUL_QUESTIONS[sessions[sid].step].question
             /\ result'.currentStep = sessions[sid].step]_vars

\* A whitespace-only answer to question 3 has been rejected.
C2_Witness ==
    /\ call.op = "answer_question"
    /\ call.answer = <<" ", "\t">>
    /\ call.sessionId \in DOMAIN sessions
    /\ sessions[call.sessionId].step = 3
    /\ result.success = FALSE
    /\ "question" \in DOMAIN result.message

C4_ExpiredIsUnknown ==
    [][/\ Swept =>
             \A sid \in DOMAIN sessions :
                 now - sessions[sid].createdAt > SESSION_EXPIRY_MS
                     => sid \notin DOMAIN sessions'
       /\ \A sid \in PairIds \ DOMAIN sessions :
             /\ ( \/ Called("answer_question", sid)
                  \/ Called("generate_soul", sid)
                  \/ Called("export_soul", sid) )
                => /\ result' = NoSessionResult
                   /\ sessions' = sessions
             /\ Called("start_soul_builder", sid)
                => /\ sid \in DOMAIN sessions'
                   /\ sessions'[sid].step = 1
                   /\ DOMAIN sessions'[sid].answers = {}
                   /\ sessions'[sid].createdAt = now
                   /\ result'.currentStep = 1]_vars

\* An identifier whose session was swept at a later step has been started
\* again and holds a fresh session.
C4_Witness ==
    \E sid \in DOMAIN evicted \cap DOMAIN sessions :
        /\ evicted[sid] > 1
        /\ call.op = "start_soul_builder"
        /\ result.message.text # "Session bereits aktiv. Wir sind bei Frage ${existing.step}/${TOTAL_STEPS}."
        /\ sessions[sid].step = 1
        /\ DOMAIN sessions[sid].answers = {}
        /\ sessions[sid].createdAt = now

\* C5: createdAt is set to the time of creation and no call changes it;
\* sessions leave the map only in a sweep, and a sweep removes exactly the
\* sessions older than the expiry window, whatever was answered meanwhile.
C5_ExpiryAnchoredToCreation ==
    [][/\ \A sid \in DOMAIN sessions' :
             sessions'[sid].createdAt =
                 IF sid \in DOMAIN sessions THEN sessions[sid].createdAt ELSE now
       /\ \A sid \in DOMAIN sessions :
             sid \notin DOMAIN sessions'
                 <=> (Swept /\ now - sessions[sid].createdAt > SESSION_EXPIRY_MS)]_vars

\* A session has been swept although the last call was an accepted answer.
C5_Witness ==
    \E sid \in DOMAIN evicted \ DOMAIN sessions :
        /\ evicted[sid] > 2
        /\ call.op = "answer_question"
        /\ call.sessionId = sid
        /\ result.success
        /\ result.currentStep = evicted[sid]

\* C6: begin on an existing session leaves the session map unchanged and
\* reports that session's step and the prompt of the question at that
\* step; begin on a fresh identifier reports step 1 and question 1, so
\* two begins on a fresh identifier report the same.
C6_BeginIdempotent ==
    [][\A sid \in PairIds :
          Called("start_soul_builder", sid) =>
              IF sid \in DOMAIN sessions
              THEN /\ sessions' = sessions
                   /\ result'.success
                   /\ result'.currentStep = sessions[sid].step
                   /\ sessions[sid].step <= TOTAL_STEPS =>
                         result'.nextQuestion = SOUL_QUESTIONS[sessions[sid].step].question
              ELSE /\ result'.success
                   /\ result'.currentStep = 1
                   /\ result'.nextQuestion = SOUL_QUESTIONS[1].question]_vars

\* begin has been called, later than its creation, on a session at
\* question 4 and has reported question 4.
C6_Witness ==
    \E sid \in DOMAIN sessions :
        /\ call.op = "start_soul_builder"
        /\ call.sessionId = sid
        /\ sessions[sid].step = 4
        /\ sessions[sid].createdAt < now
        /\ result.currentStep = 4
        /\ result.nextQuestion = SOUL_QUESTIONS[4].question

\* C7: submitAnswer, generate and export on an identifier with no stored
\* session return the NO_SESSION failure and leave the session map as it
\* was: no session is created and no existing session changes.
C7_NoSessionNoMutation ==
    [][\A sid \in PairIds \ DOMAIN sessions :
          ( \/ Called("answer_question", sid)
            \/ Called("generate_soul", sid)
            \/ Called("export_soul", sid) )
          => /\ result'.success = FALSE
             /\ result'.message.text = "Keine aktive Session gefunden. Bitte starte mit start_soul_builder."
             /\ DOMAIN result' = {"success", "message"}
             /\ sessions' = sessions]_vars

\* An answer has been refused for an unknown identifier while another
\* identifier holds a session in progress.
C7_Witness ==
    /\ call.op = "answer_question"
    /\ call.sessionId \notin DOMAIN sessions
    /\ call.answer = <<"A", " ", "i", " ">>
    /\ result = NoSessionResult
    /\ \E other \in DOMAIN sessions : sessions[other].step > 1

\* C8: the skip word, in any letter case and with surrounding whitespace,
\* given while the optional question is awaited, stores the empty string
\* in that question's field and advances currentStep by one.
C8_SkipOptional ==
    [][\A sid \in DOMAIN sessions :
          ( /\ Called("answer_question", sid)
            /\ call'.answer \in SkipAnswers
            /\ sessions[sid].step <= TOTAL_STEPS
            /\ SOUL_QUESTIONS[sessions[sid].step].optional )
          => /\ sid \in DOMAIN sessions'
             /\ sessions'[sid].step = sessions[sid].step + 1
             /\ SOUL_QUESTIONS[sessions[sid].step].field \in DOMAIN sessions'[sid].answers
             /\ sessions'[sid].answers[SOUL_QUESTIONS[sessions[sid].step].field] = <<>>]_vars

\* The mixed-case skip word has completed a session with an empty signature.
C8_Witness ==
    \E sid \in DOMAIN sessions :
        /\ call.op = "answer_question"
        /\ call.sessionId = sid
        /\ call.answer = <<" ", "S", "k", "I", "p", "\n">>
        /\ "name" \in DOMAIN result.message
        /\ sessions[sid].step = TOTAL_STEPS + 1
        /\ sessions[sid].answers["signature"] = <<>>

\* C9: the skip word given while a required question is awaited is an
\* ordinary answer: its trimmed text is stored as written under that
\* question's field and currentStep advances by one.
C9_SkipRequiredIsLiteral ==
    [][\A sid \in DOMAIN sessions :
          ( /\ Called("answer_question", sid)
            /\ call'.answer \in SkipAnswers
            /\ sessions[sid].step <= TOTAL_STEPS
            /\ ~SOUL_QUESTIONS[sessions[sid].step].optional )
          => /\ sid \in DOMAIN sessions'
             /\ sessions'[sid].step = sessions[sid].step + 1
             /\ SOUL_QUESTIONS[sessions[sid].step].field \in DOMAIN sessions'[sid].answers
             /\ sessions'[sid].answers[SOUL_QUESTIONS[sessions[sid].step].field] =
                   IF call'.answer = <<"s", "k", "i", "p">>
                   THEN <<"s", "k", "i", "p">>
                   ELSE <<"S", "k", "I", "p">>]_vars

\* "skip" has been stored as the agent's name.
C9_Witness ==
    \E sid \in DOMAIN sessions :
        /\ call.op = "answer_question"
        /\ call.sessionId = sid
        /\ call.answer = <<"s", "k", "i", "p">>
        /\ sessions[sid].step = 2
        /\ sessions[sid].answers["name"] = <<"s", "k", "i", "p">>

\* C10: once currentStep > TOTAL_STEPS, submitAnswer with any text returns
\* a successful completion report and changes nothing; no step changes a
\* complete session, and it leaves the map only by eviction in a sweep.
C10_CompleteIsTerminal ==
    [][\A sid \in DOMAIN sessions :
          sessions[sid].step > TOTAL_STEPS =>
              /\ Called("answer_question", sid) =>
                    /\ sessions' = sessions
                    /\ result'.success
                    /\ result'.isComplete
                    /\ result'.currentStep = sessions[sid].step
                    /\ "nextQuestion" \notin DOMAIN result'
              /\ sid \in DOMAIN sessions' => sessions'[sid] = sessions[sid]
              /\ sid \notin DOMAIN sessions' => Swept]_vars

\* A non-empty answer has been sent to a complete session and turned away
\* with the completion notice.
C10_Witness ==
    \E sid \in DOMAIN sessions :
        /\ call.op = "answer_question"
        /\ call.sessionId = sid
        /\ call.answer = <<"A", " ", "i", " ">>
        /\ sessions[sid].step = TOTAL_STEPS + 1
        /\ result.success
        /\ "name" \notin DOMAIN result.message


\* Fields of the required questions, and of all questions.
RequiredFields == {"name", "personality", "coreValues", "tone", "backstory"}

AllFields == RequiredFields \cup {"signature"}

\* C11 as stated: a session is complete exactly when every required field
\* has a stored, non-empty answer.
C11_CompleteIffRequiredStored ==
    \A sid \in DOMAIN sessions :
        sessions[sid].step > TOTAL_STEPS
            <=> \A f \in RequiredFields :
                    /\ f \in DOMAIN sessions[sid].answers
                    /\ sessions[sid].answers[f] # <<>>

\* C11 amended: a session is complete exactly when every field, the
\* optional one included, has a stored answer; every stored answer of a
\* required field is non-empty, the optional field may hold the empty
\* string.
C11_CompleteIffAllStored ==
    \A sid \in DOMAIN sessions :
        /\ sessions[sid].step > TOTAL_STEPS
              <=> AllFields \subseteq DOMAIN sessions[sid].answers
        /\ \A f \in RequiredFields \cap DOMAIN sessions[sid].answers :
              sessions[sid].answers[f] # <<>>

\* A session is complete with the empty string as its signature.
C11_Witness ==
    \E sid \in DOMAIN sessions :
        /\ sessions[sid].step > TOTAL_STEPS
        /\ DOMAIN sessions[sid].answers = AllFields
        /\ sessions[sid].answers["signature"] = <<>>
        /\ sessions[sid].answers["name"] # <<>>


\* C12: on a complete session generate and export each succeed with a
\* document and change nothing, whatever was called before; the document
\* equals the one returned by the preceding generate or export on the
\* same session, so that repeated and mixed calls agree.
C12_GenerateExportReadOnly ==
    [][\A sid \in DOMAIN sessions :
          ( /\ sessions[sid].step > TOTAL_STEPS
            /\ \/ Called("generate_soul", sid)
               \/ Called("export_soul", sid) )
          => /\ sessions' = sessions
             /\ result'.success
             /\ "soulMd" \in DOMAIN result'
             /\ ( /\ call.op \in {"generate_soul", "export_soul"}
                  /\ call.sessionId = sid
                  /\ "soulMd" \in DOMAIN result )
                => result'.soulMd = result.soulMd]_vars

\* export has returned the document of a complete session.
C12_Witness ==
    \E sid \in DOMAIN sessions :
        /\ sessions[sid].step > TOTAL_STEPS
        /\ call.op = "export_soul"
        /\ call.sessionId = sid
        /\ result.success
        /\ "soulMd" \in DOMAIN result
        /\ Len(result.soulMd) > 0

\* doc contains the pieces of part, in order and adjacent.
Contains(doc, part) ==
    \E i \in 1..(Len(doc) - Len(part) + 1) :
        SubSeq(doc, i, i + Len(part) - 1) = part

\* C13: the document of a complete session has the fixed placeholder
\* under the signature heading when the stored signature is the empty
\* string, and the stored text, without the placeholder, otherwise.
C13_SignaturePlaceholder ==
    \A sid \in DOMAIN sessions :
        ( /\ call.op \in {"generate_soul", "export_soul"}
          /\ call.sessionId = sid
          /\ sessions[sid].step > TOTAL_STEPS )
        => /\ "soulMd" \in DOMAIN result
           /\ IF sessions[sid].answers["signature"] = <<>>
              THEN Contains(result.soulMd,
                            <<"## Signature\n", "*Keine Signatur definiert*">>)
              ELSE /\ Contains(result.soulMd,
                               <<"## Signature\n">> \o sessions[sid].answers["signature"])
                   /\ ~Contains(result.soulMd, <<"*Keine Signatur definiert*">>)

\* generate has rendered a session whose signature was skipped.
C13_Witness ==
    \E sid \in DOMAIN sessions :
        /\ call.op = "generate_soul"
        /\ call.sessionId = sid
        /\ sessions[sid].step > TOTAL_STEPS
        /\ sessions[sid].answers["signature"] = <<>>
        /\ "soulMd" \in DOMAIN result


\* The text an accepted raw answer leaves in the store, written out.
StoredText(raw) ==
    CASE raw = <<>> -> <<>>
      [] raw = <<" ", "\t">> -> <<>>
      [] raw = <<"s", "k", "i", "p">> -> <<"s", "k", "i", "p">>
      [] raw = <<" ", "S", "k", "I", "p", "\n">> -> <<"S", "k", "I", "p">>
      [] raw = <<"A", " ", "i", " ">> -> <<"A", " ", "i">>

\* The value question k stores for an accepted raw answer.
StoredFor(k, raw) ==
    IF SOUL_QUESTIONS[k].optional /\ raw \in SkipAnswers
    THEN <<>>
    ELSE StoredText(raw)

\* C14: two submitAnswer calls on one identifier, handled one after the
\* other and both accepted, advance currentStep by two in all and leave
\* the first answer under the first question's field and the second
\* answer under the next question's field.
C14_NoLostUpdate ==
    [][\A sid \in DOMAIN sessions :
          ( /\ call.op = "answer_question"
            /\ call.sessionId = sid
            /\ result.success
            /\ sessions[sid].step \in 2..TOTAL_STEPS
            /\ result.currentStep = sessions[sid].step
            /\ Called("answer_question", sid)
            /\ result'.success )
          => /\ sid \in DOMAIN sessions'
             /\ sessions'[sid].step = (sessions[sid].step - 1) + 2
             /\ {SOUL_QUESTIONS[sessions[sid].step - 1].field,
                 SOUL_QUESTIONS[sessions[sid].step].field}
                    \subseteq DOMAIN sessions'[sid].answers
             /\ sessions'[sid].answers[SOUL_QUESTIONS[sessions[sid].step - 1].field]
                    = StoredFor(sessions[sid].step - 1, call.answer)
             /\ sessions'[sid].answers[SOUL_QUESTIONS[sessions[sid].step].field]
                    = StoredFor(sessions[sid].step, call'.answer)]_vars

\* Two answers have been accepted in a row and both are in the store.
C14_Witness ==
    \E sid \in DOMAIN sessions :
        /\ call.op = "answer_question"
        /\ call.sessionId = sid
        /\ call.answer = <<"A", " ", "i", " ">>
        /\ result.success
        /\ sessions[sid].step = 3
        /\ sessions[sid].answers["name"] = <<"S", "k", "I", "p">>
        /\ sessions[sid].answers["personality"] = <<"A", " ", "i">>


\* C15 as stated: submitAnswer, generate and export on an identifier whose
\* session is older than the expiry window return NO_SESSION.
C15_ExpiredReturnsNoSession ==
    [][\A sid \in DOMAIN sessions :
          ( /\ now - sessions[sid].createdAt > SESSION_EXPIRY_MS
            /\ \/ Called("answer_question", sid)
               \/ Called("generate_soul", sid)
               \/ Called("export_soul", sid) )
          => result' = NoSessionResult]_vars

\* C15 amended: submitAnswer, generate and export return NO_SESSION
\* exactly when the identifier has no stored session, be it never started
\* or removed by a sweep; a session older than the expiry window that no
\* sweep has removed yet is served like any live session.
C15_NoSessionIffAbsent ==
    [][\A sid \in PairIds :
          ( \/ Called("answer_question", sid)
            \/ Called("generate_soul", sid)
            \/ Called("export_soul", sid) )
          => ( result' = NoSessionResult <=> sid \notin DOMAIN sessions )]_vars

\* A session older than the expiry window is still stored, the sweep is
\* due, and the last call on it was an accepted answer.
C15_Witness ==
    \E sid \in DOMAIN sessions :
        /\ now - sessions[sid].createdAt > SESSION_EXPIRY_MS
        /\ now >= nextSweep
        /\ call.op = "answer_question"
        /\ call.sessionId = sid
        /\ result.success
        /\ result.currentStep = sessions[sid].step
        /\ sessions[sid].step > 1


\* Fields of the questions before position k.
FieldsBefore(k) == {SOUL_QUESTIONS[j].field : j \in 1..(k - 1)}

\* C16: the fields present in a session's answers are exactly those of
\* questions 1..currentStep-1; a stored value never changes, and a field
\* appears only in a submitAnswer call on that session made while
\* currentStep pointed at its question, which then moves on by one.
C16_AnswersWrittenOnce ==
    [][\A sid \in DOMAIN sessions' :
          /\ DOMAIN sessions'[sid].answers = FieldsBefore(sessions'[sid].step)
          /\ sid \in DOMAIN sessions =>
                /\ \A f \in DOMAIN sessions[sid].answers :
                      /\ f \in DOMAIN sessions'[sid].answers
                      /\ sessions'[sid].answers[f] = sessions[sid].answers[f]
                /\ \A f \in DOMAIN sessions'[sid].answers \ DOMAIN sessions[sid].answers :
                      /\ Called("answer_question", sid)
                      /\ f = SOUL_QUESTIONS[sessions[sid].step].field
                      /\ sessions'[sid].step = sessions[sid].step + 1]_vars

\* Three answers are stored and the fourth question is awaited.
C16_Witness ==
    \E sid \in DOMAIN sessions :
        /\ call.op = "answer_question"
        /\ call.sessionId = sid
        /\ sessions[sid].step = 4
        /\ DOMAIN sessions[sid].answers = {"name", "personality", "coreValues"}
        /\ sessions[sid].answers["coreValues"] = <<"A", " ", "i">>

\* C17: an accepted answer to question k < TOTAL_STEPS moves the session
\* to question k + 1 and reports that question; the accepted answer to
\* question TOTAL_STEPS, the TOTAL_STEPS-th accepted one, completes the
\* session and reports isComplete, currentStep = TOTAL_STEPS + 1 and the
\* stored name; a refused answer moves nothing; generate succeeds on the
\* complete session.
C17_CompleteAfterTotalSteps ==
    [][\A sid \in DOMAIN sessions :
          /\ ( /\ Called("answer_question", sid)
               /\ sessions[sid].step <= TOTAL_STEPS )
             => /\ sid \in DOMAIN sessions'
                /\ Cardinality(DOMAIN sessions'[sid].answers) = sessions'[sid].step - 1
                /\ IF result'.success
                   THEN /\ sessions'[sid].step = sessions[sid].step + 1
                        /\ result'.currentStep = sessions[sid].step + 1
                        /\ result'.isComplete = (sessions[sid].step = TOTAL_STEPS)
                        /\ sessions[sid].step < TOTAL_STEPS =>
                              result'.nextQuestion =
                                  SOUL_QUESTIONS[sessions[sid].step + 1].question
                        /\ sessions[sid].step = TOTAL_STEPS =>
                              /\ "nextQuestion" \notin DOMAIN result'
                              /\ result'.message.name = sessions'[sid].answers["name"]
                   ELSE sessions'[sid].step = sessions[sid].step
          /\ ( /\ Called("generate_soul", sid)
               /\ sessions[sid].step = TOTAL_STEPS + 1 )
             => /\ result'.success
                /\ "soulMd" \in DOMAIN result'
          /\ ( /\ Called("generate_soul", sid)
               /\ sessions[sid].step <= TOTAL_STEPS )
             => ~result'.success]_vars

\* The sixth accepted answer has completed the session and the report
\* names the agent.
C17_Witness ==
    \E sid \in DOMAIN sessions :
        /\ call.op = "answer_question"
        /\ call.sessionId = sid
        /\ result.success
        /\ result.isComplete
        /\ result.currentStep = TOTAL_STEPS + 1
        /\ "name" \in DOMAIN result.message
        /\ result.message.name = <<"A", " ", "i">>
        /\ sessions[sid].answers["name"] = <<"A", " ", "i">>
        /\ Cardinality(DOMAIN sessions[sid].answers) = TOTAL_STEPS


\* C18: a sweep and a submitAnswer on the same session happen one after
\* the other: the request either finds no session and returns NO_SESSION
\* without touching the map, or is applied in full to a session that
\* stays stored; every stored session holds an answer for question k
\* exactly when k is below its step; a sweep removes exactly the sessions
\* older than the expiry window and leaves the others as they were.
C18_SweepAtomic ==
    [][/\ \A sid \in DOMAIN sessions' :
             \A k \in 1..TOTAL_STEPS :
                 SOUL_QUESTIONS[k].field \in DOMAIN sessions'[sid].answers
                     <=> k < sessions'[sid].step
       /\ Swept =>
             \A sid \in DOMAIN sessions :
                 IF now - sessions[sid].createdAt > SESSION_EXPIRY_MS
                 THEN sid \notin DOMAIN sessions'
                 ELSE /\ sid \in DOMAIN sessions'
                      /\ sessions'[sid] = sessions[sid]
       /\ \A sid \in PairIds :
             Called("answer_question", sid) =>
                 IF sid \notin DOMAIN sessions
                 THEN /\ result' = NoSessionResult
                      /\ sessions' = sessions
                 ELSE /\ sid \in DOMAIN sessions'
                      /\ result' # NoSessionResult
                      /\ \/ sessions' = sessions
                         \/ /\ sessions'[sid].step = sessions[sid].step + 1
                            /\ SOUL_QUESTIONS[sessions[sid].step].field
                                   \in DOMAIN sessions'[sid].answers]_vars

\* A session that had answers has been swept and a later answer on its
\* identifier found no session.
C18_Witness ==
    \E sid \in DOMAIN evicted \ DOMAIN sessions :
        /\ evicted[sid] > 1
        /\ now >= SESSION_EXPIRY_MS + SWEEP_INTERVAL_MS
        /\ now < nextSweep
        /\ call.op = "answer_question"
        /\ call.sessionId = sid
        /\ result = NoSessionResult


\* C19: begin, submitAnswer, generate and export on one identifier leave
\* the session of every other identifier as it was: present or absent as
\* before, with the same currentStep, answers and createdAt.
C19_SessionsIndependent ==
    [][\A a \in PairIds : \A b \in PairIds \ {a} :
          ( \/ Called("start_soul_builder", a)
            \/ Called("answer_question", a)
            \/ Called("generate_soul", a)
            \/ Called("export_soul", a) )
          => /\ b \in DOMAIN sessions <=> b \in DOMAIN sessions'
             /\ b \in DOMAIN sessions => sessions'[b] = sessions[b]]_vars

\* Two sessions created at different times stand at different questions
\* after an accepted answer on one of them.
C19_Witness ==
    /\ DOMAIN sessions = {"s1", "s2"}
    /\ call.op = "answer_question"
    /\ call.sessionId = "s1"
    /\ result.success
    /\ sessions["s1"].step = 3
    /\ sessions["s2"].step = 2
    /\ sessions["s1"].createdAt # sessions["s2"].createdAt


\* C20: an answer that is empty after trimming, given while the optional
\* question is awaited, is accepted: the session afterwards has the empty
\* string in that question's field and the step advanced by one, which is
\* the very session the skip word leaves.
C20_EmptyOptionalAccepted ==
    [][\A sid \in DOMAIN sessions :
          ( /\ Called("answer_question", sid)
            /\ call'.answer \in BlankAnswers \cup SkipAnswers
            /\ sessions[sid].step <= TOTAL_STEPS
            /\ SOUL_QUESTIONS[sessions[sid].step].optional )
          => /\ result'.success
             /\ DOMAIN sessions' = DOMAIN sessions
             /\ sessions'[sid] =
                   [step |-> sessions[sid].step + 1,
                    answers |->
                        [f \in DOMAIN sessions[sid].answers
                                 \cup {SOUL_QUESTIONS[sessions[sid].step].field} |->
                            IF f = SOUL_QUESTIONS[sessions[sid].step].field
                            THEN <<>>
                            ELSE sessions[sid].answers[f]],
                    createdAt |-> sessions[sid].createdAt]]_vars

\* A whitespace-only answer to the optional question has completed the
\* session with an empty signature.
C20_Witness ==
    \E sid \in DOMAIN sessions :
        /\ call.op = "answer_question"
        /\ call.sessionId = sid
        /\ call.answer = <<" ", "\t">>
        /\ result.success
        /\ "name" \in DOMAIN result.message
        /\ sessions[sid].step = TOTAL_STEPS + 1
        /\ sessions[sid].answers["signature"] = <<>>



\* C21: every successful report of begin and of submitAnswer agrees with
\* the session stored after the call: the session exists, currentStep is
\* its step, totalSteps is TOTAL_STEPS, isComplete is true exactly when
\* that step is above TOTAL_STEPS, and nextQuestion is present exactly
\* when it is not, being then the prompt of the question at that step;
\* begin on a complete session succeeds, changes nothing and reports
\* isComplete with currentStep = TOTAL_STEPS + 1 and no question.
C21_ReportAgreesWithSession ==
    [][\A sid \in PairIds :
          /\ ( /\ \/ Called("start_soul_builder", sid)
                   \/ Called("answer_question", sid)
               /\ result'.success )
             => /\ sid \in DOMAIN sessions'
                /\ result'.currentStep = sessions'[sid].step
                /\ result'.totalSteps = TOTAL_STEPS
                /\ result'.isComplete = (sessions'[sid].step > TOTAL_STEPS)
                /\ "nextQuestion" \in DOMAIN result'
                       <=> sessions'[sid].step <= TOTAL_STEPS
                /\ sessions'[sid].step <= TOTAL_STEPS =>
                       result'.nextQuestion =
                           SOUL_QUESTIONS[sessions'[sid].step].question
          /\ ( /\ Called("start_soul_builder", sid)
               /\ sid \in DOMAIN sessions
               /\ sessions[sid].step > TOTAL_STEPS )
             => /\ sessions' = sessions
                /\ result'.success
                /\ result'.isComplete
                /\ result'.currentStep = TOTAL_STEPS + 1
                /\ "nextQuestion" \notin DOMAIN result']_vars

\* begin has been called on a complete session and has reported it
\* complete, at step TOTAL_STEPS + 1, without a question.
C21_Witness ==
    \E sid \in DOMAIN sessions :
        /\ call.op = "start_soul_builder"
        /\ call.sessionId = sid
        /\ sessions[sid].step = TOTAL_STEPS + 1
        /\ result.success
        /\ result.isComplete
        /\ result.currentStep = TOTAL_STEPS + 1
        /\ "nextQuestion" \notin DOMAIN result

====
